---- MODULE Spec2Model ----
(***************************************************************************)
(* Model of src/producer/producer.py: the SimpleProducer (hot-IP rotation, *)
(* IP selection, log assembly, stream append) driven by main().            *)
(*                                                                         *)
(* The program is one thread of control; pc is its position.  The          *)
(* environment acts in two ways: the wall clock moves while the program    *)
(* sleeps, and a KeyboardInterrupt may be delivered between any two steps. *)
(* Probabilities and random.random() draws are counted in thousandths      *)
(* (0.03 is 30, 0.12 is 120, [0,1) is 0..999).                             *)
(*                                                                         *)
(* Specifications:                                                         *)
(*   Spec         the program, the clock never going back;                 *)
(*   SpecLive     Spec, with the thread always taking its next step;       *)
(*   SpecStepped  the program under a clock that can be set back;          *)
(*   SpecTs       _generate_timestamp alone, over all its offsets.         *)
(***************************************************************************)
EXTENDS Integers, Sequences, FiniteSets, TLC

VARIABLES
    pc,                  \* position of the single thread of control
    clock,               \* the wall clock, as time.time() would read it
    current_hot_ips,     \* self.current_hot_ips
    hot_ip_probabilities,\* self.hot_ip_probabilities
    last_rotation_time,  \* self.last_rotation_time
    current_time,        \* local of _rotate_hot_ips (kept until the next call)
    num_hot_ips,         \* local of _rotate_hot_ips
    caller,              \* who called _rotate_hot_ips: "init" or "gen_ip"
    rotated,             \* did the latest _rotate_hot_ips call rotate
    prev,                \* what the previous call had left when the running one began
    idx,                 \* position of the zip loop of _generate_ip
    failed,              \* draws of the running _generate_ip not below their probability
    all_zero,            \* were all draws of the running _generate_ip 0.0
    ret,                 \* return value of _generate_ip: [ip, source]
    log,                 \* the dict being built by _generate_log
    built,               \* number of dicts _generate_log has returned
    sink,                \* the Redis stream: the field names of each record appended
    in_try,              \* is control inside main's try block
    raised,              \* exception in flight
    interrupted_at,      \* pc at which the KeyboardInterrupt was delivered
    outcome,             \* "running", "graceful" (exit 0), "uncaught" (traceback)
    pool,                \* self.hot_ip_pool
    hot_at,              \* clock reading of the rotation that assigned current_hot_ips
    probs_at,            \* clock reading of the rotation that assigned hot_ip_probabilities
    calls,               \* calls made for the dict being built, by callee
    base_time,           \* local of _generate_timestamp: datetime.now() as [sec, usec]
    variation            \* locals variation_minutes and variation_seconds

vars == <<pc, clock, current_hot_ips, hot_ip_probabilities, last_rotation_time,
          current_time, num_hot_ips, caller, rotated, prev, idx,
          failed, all_zero, ret, log, built, sink, in_try, raised, interrupted_at,
          outcome, pool, hot_at, probs_at, calls, base_time, variation>>

rotVars == <<current_hot_ips, hot_ip_probabilities, last_rotation_time>>
rotLocals == <<current_time, num_hot_ips, caller, rotated, prev>>
ipLocals == <<idx, failed, all_zero, ret>>
excVars == <<in_try, raised, interrupted_at, outcome>>
setVars == <<pool, hot_at, probs_at>>
tsLocals == <<base_time, variation>>
callVars == <<calls, base_time, variation>>

(***************************************************************************)
(* Bounds of the model.                                                     *)
(***************************************************************************)
MaxEvents == 3        \* iterations of the emission loop that are explored
MaxPeriods == 2       \* the clock reads up to MaxPeriods rotation intervals

(***************************************************************************)
(* Program constants.                                                       *)
(***************************************************************************)
rotation_interval == 240
MinHot == 4
MaxHot == 6
MinProb == 30
MaxProb == 120

hot_ip_pool ==
    << "192.168.1.100", "10.0.0.50", "172.16.0.25", "203.0.113.10",
       "198.51.100.5", "192.0.2.15", "203.0.113.25", "198.51.100.20",
       "192.168.1.200", "10.0.0.75", "172.16.0.50", "203.0.113.30",
       "198.51.100.100", "192.0.2.100", "172.16.1.10", "10.1.1.50" >>

Methods == << "GET", "POST", "PUT", "DELETE", "PATCH" >>
StatusCodes == << "200", "404", "500", "301", "403" >>
Fields == {"method", "ip", "path", "timestamp", "user_agent", "status_code"}

Range(s) == {s[j] : j \in 1..Len(s)}
Min(a, b) == IF a < b THEN a ELSE b

(***************************************************************************)
(* The environment's inputs.                                                *)
(***************************************************************************)
\* Readings of time.time(): one inside the first interval, and for each
\* multiple of the rotation interval that multiple, one more, and 100 more
\* (so that gaps of 100, 239, 240 and 241 between two readings all occur).
ClockOffsets == {0, 1, 100}
ClockReadings ==
    {100} \cup {rotation_interval * k + d : k \in 1..MaxPeriods, d \in ClockOffsets}

\* A sampling with replacement: an entry can be drawn more than once.
Sample_Repeating(population, k) ==
    {[j \in 1..k |-> population[s + 1 + (j % 2)]] :
        s \in {t \in {0, 1} : t + k <= Len(population)}}

\* random.sample(population, k): k distinct entries in the order drawn.  The
\* outcomes explored are the runs of k consecutive pool entries that begin
\* after SampleStarts entries.
SampleStarts == {0, 1}
Sample(population, k) ==
    {[j \in 1..k |-> population[s + j]] :
        s \in {t \in SampleStarts : t + k <= Len(population)}}

\* random.uniform(0.03, 0.12) for each hot IP: the values explored are the
\* two ends, the first entry drawn independently of the others.
ProbDraws == {MinProb, MaxProb}
Uniforms(n) == {[j \in 1..n |-> IF j = 1 THEN a ELSE b] : a, b \in ProbDraws}

\* random.random(): values in [0, 1).
RandomDraws == {0, 30, 100, 999}

\* Faker's ipv4(): any address, an address of the pool included.
FallbackDraws == {hot_ip_pool[1], "8.8.8.8"}

\* random.choice(methods) and random.choices(codes, weights): the first and
\* the last entry of each list.
MethodDraws == {Methods[1], Methods[Len(Methods)]}
StatusDraws == {StatusCodes[1], StatusCodes[Len(StatusCodes)]}

\* random.randint(-5, 5) and random.randint(0, 59) of _generate_timestamp:
\* the earliest and the latest offset.
JitterDraws == {<<0 - 5, 0>>, <<5, 59>>}

\* The microseconds of datetime.now(): none, and half a second.
UsecDraws == {0, 500000}

\* The callees counted for each dict that _generate_log builds.
Callees == {"method", "select_ip", "path", "timestamp", "user_agent",
            "status_code", "rotation_check", "rotation"}
NoCalls == [c \in Callees |-> 0]
Called(count, names) ==
    [c \in Callees |-> IF c \in names THEN count[c] + 1 ELSE count[c]]

NoTime == [sec |-> 0, usec |-> 0]
NoVariation == [minutes |-> 0, seconds |-> 0]
NoLog == [f \in {} |-> ""]
NoRet == [ip |-> "", source |-> "none"]
NoPrev == [valid |-> FALSE, now |-> 0, hot |-> <<>>, probs |-> <<>>,
           last |-> 0, rotated |-> FALSE]

(***************************************************************************)
(* Initial state: main() has been entered, nothing has run yet.             *)
(***************************************************************************)
Init ==
    /\ pc = "ping"
    /\ clock \in ClockReadings
    /\ current_hot_ips = <<>>
    /\ hot_ip_probabilities = <<>>
    /\ last_rotation_time = 0
    /\ current_time = 0
    /\ num_hot_ips = 0
    /\ caller = "init"
    /\ rotated = FALSE
    /\ prev = NoPrev
    /\ idx = 0
    /\ failed = 0
    /\ all_zero = TRUE
    /\ ret = NoRet
    /\ log = NoLog
    /\ built = 0
    /\ sink = <<>>
    /\ in_try = FALSE
    /\ raised = "none"
    /\ interrupted_at = "none"
    /\ outcome = "running"
    /\ pool = <<>>
    /\ hot_at = 0
    /\ probs_at = 0
    /\ calls = NoCalls
    /\ base_time = NoTime
    /\ variation = NoVariation

Running == outcome = "running" /\ raised = "none"

\* A raised exception leaves the frames below main: their locals are gone.
FramesGone ==
    /\ current_time' = 0
    /\ num_hot_ips' = 0
    /\ rotated' = FALSE
    /\ prev' = NoPrev
    /\ idx' = 0
    /\ failed' = 0
    /\ all_zero' = TRUE
    /\ ret' = NoRet
    /\ log' = NoLog
    /\ calls' = NoCalls
    /\ base_time' = NoTime
    /\ variation' = NoVariation

(***************************************************************************)
(* SimpleProducer.__init__                                                  *)
(***************************************************************************)
\* r.ping() succeeds.
PingOk ==
    /\ Running /\ pc = "ping"
    /\ pc' = "init_fields"
    /\ UNCHANGED <<clock, rotVars, rotLocals, ipLocals, log, built, sink, excVars,
                   setVars, callVars>>

\* r.ping() raises redis.ConnectionError; the except clause prints and re-raises.
PingFail ==
    /\ Running /\ pc = "ping"
    /\ raised' = "ConnectionError"
    /\ pc' = "unwind"
    /\ FramesGone
    /\ UNCHANGED <<clock, rotVars, caller, built, sink, in_try,
                   interrupted_at, outcome, setVars>>

\* Faker(), the pool, and the empty hot set with last_rotation_time = 0;
\* then the call of _rotate_hot_ips.
InitFields ==
    /\ Running /\ pc = "init_fields"
    /\ current_hot_ips' = <<>>
    /\ hot_ip_probabilities' = <<>>
    /\ pool' = hot_ip_pool
    /\ last_rotation_time' = 0
    /\ hot_at' = 0
    /\ probs_at' = 0
    /\ caller' = "init"
    /\ pc' = "rot_read"
    /\ UNCHANGED <<clock, current_time, num_hot_ips, rotated, prev, ipLocals,
                   log, built, sink, excVars, callVars>>

(***************************************************************************)
(* SimpleProducer._rotate_hot_ips                                           *)
(***************************************************************************)
\* A test that lets only the first rotation through.
ShouldRotate_Once(now, last) == last = 0 /\ now - last >= rotation_interval

\* A test that looks at the distance between the two readings, whichever
\* is the later.
ShouldRotate_Apart(now, last) ==
    now - last >= rotation_interval \/ last - now >= rotation_interval

\* A test that lets a gap of exactly the interval pass without rotating.
ShouldRotate_Strict(now, last) == now - last > rotation_interval

\* A test that rotates one time-unit early.
ShouldRotate_Early(now, last) == now - last >= rotation_interval - 1

\* The rotation test of line 65, negated: rotate when the interval has passed.
ShouldRotate(now, last) == ~(now - last < rotation_interval)

\* current_time = time.time().  prev records what the previous call left.
RotRead ==
    /\ Running /\ pc = "rot_read"
    /\ prev' = [valid |-> caller = "gen_ip",
                now |-> current_time,
                hot |-> current_hot_ips,
                probs |-> hot_ip_probabilities,
                last |-> last_rotation_time,
                rotated |-> rotated]
    /\ current_time' = clock
    /\ rotated' = FALSE
    /\ calls' = Called(calls, {"rotation_check"})
    /\ pc' = "rot_check"
    /\ UNCHANGED <<clock, rotVars, num_hot_ips, caller, ipLocals, log, built,
                   sink, excVars, setVars, tsLocals>>

\* if current_time - self.last_rotation_time < self.rotation_interval: return
RotCheck ==
    /\ Running /\ pc = "rot_check"
    /\ pc' = IF ShouldRotate(current_time, last_rotation_time)
             THEN "rot_num" ELSE "rot_return"
    /\ UNCHANGED <<clock, rotVars, rotLocals, ipLocals, log, built, sink, excVars,
                   setVars, callVars>>

\* num_hot_ips = random.randint(4, 6)
RotNum ==
    /\ Running /\ pc = "rot_num"
    /\ num_hot_ips' \in MinHot..MaxHot
    /\ pc' = "rot_sample"
    /\ UNCHANGED <<clock, rotVars, current_time, caller, rotated, prev,
                   ipLocals, log, built, sink, excVars, setVars, callVars>>

\* self.current_hot_ips = random.sample(self.hot_ip_pool, num_hot_ips)
RotSample ==
    /\ Running /\ pc = "rot_sample"
    /\ current_hot_ips' \in Sample(pool, num_hot_ips)
    /\ hot_at' = current_time
    /\ pc' = "rot_probs"
    /\ UNCHANGED <<clock, hot_ip_probabilities, last_rotation_time, rotLocals,
                   ipLocals, log, built, sink, excVars, pool, probs_at, callVars>>

\* A rotation that keeps the probabilities it has when there are enough of
\* them for the new hot set.
RotProbs_Keep ==
    /\ Running /\ pc = "rot_probs"
    /\ IF Len(hot_ip_probabilities) >= Len(current_hot_ips)
         /\ Len(hot_ip_probabilities) > 0
       THEN /\ hot_ip_probabilities' =
                  SubSeq(hot_ip_probabilities, 1, Len(current_hot_ips))
            /\ probs_at' = probs_at
       ELSE /\ hot_ip_probabilities' \in Uniforms(Len(current_hot_ips))
            /\ probs_at' = current_time
    /\ pc' = "rot_last"
    /\ UNCHANGED <<clock, current_hot_ips, last_rotation_time, rotLocals,
                   ipLocals, log, built, sink, excVars, pool, hot_at, callVars>>

\* A rotation that always draws MinHot probabilities.
RotProbs_Fixed ==
    /\ Running /\ pc = "rot_probs"
    /\ hot_ip_probabilities' \in Uniforms(MinHot)
    /\ probs_at' = current_time
    /\ pc' = "rot_last"
    /\ UNCHANGED <<clock, current_hot_ips, last_rotation_time, rotLocals,
                   ipLocals, log, built, sink, excVars, pool, hot_at, callVars>>

\* self.hot_ip_probabilities = [random.uniform(0.03, 0.12) for _ in ...]
RotProbs ==
    /\ Running /\ pc = "rot_probs"
    /\ hot_ip_probabilities' \in Uniforms(Len(current_hot_ips))
    /\ probs_at' = current_time
    /\ pc' = "rot_last"
    /\ UNCHANGED <<clock, current_hot_ips, last_rotation_time, rotLocals,
                   ipLocals, log, built, sink, excVars, pool, hot_at, callVars>>

\* A rotation that forgets to record its time.
RotLast_NoStamp ==
    /\ Running /\ pc = "rot_last"
    /\ rotated' = TRUE
    /\ calls' = Called(calls, {"rotation"})
    /\ pc' = "rot_print"
    /\ UNCHANGED <<clock, rotVars, current_time, num_hot_ips, caller, prev,
                   ipLocals, log, built, sink, excVars, setVars, tsLocals>>

\* self.last_rotation_time = current_time
RotLast ==
    /\ Running /\ pc = "rot_last"
    /\ last_rotation_time' = current_time
    /\ rotated' = TRUE
    /\ calls' = Called(calls, {"rotation"})
    /\ pc' = "rot_print"
    /\ UNCHANGED <<clock, current_hot_ips, hot_ip_probabilities, current_time,
                   num_hot_ips, caller, prev, ipLocals, log, built, sink, excVars,
                   setVars, tsLocals>>

\* print(...) of the rotated set.
RotPrint ==
    /\ Running /\ pc = "rot_print"
    /\ pc' = "rot_return"
    /\ UNCHANGED <<clock, rotVars, rotLocals, ipLocals, log, built, sink, excVars,
                   setVars, callVars>>

\* Return to the caller: __init__ (then main's try) or _generate_ip's loop.
RotReturn ==
    /\ Running /\ pc = "rot_return"
    /\ num_hot_ips' = 0
    /\ IF caller = "init"
       THEN /\ pc' = "main_try"
            /\ UNCHANGED ipLocals
       ELSE /\ pc' = "ip_loop"
            /\ idx' = 1
            /\ failed' = 0
            /\ all_zero' = TRUE
            /\ ret' = NoRet
    /\ UNCHANGED <<clock, rotVars, current_time, caller, rotated, prev, log,
                   built, sink, excVars, setVars, callVars>>

(***************************************************************************)
(* main: entering the try block and the emission loop                       *)
(***************************************************************************)
\* try: print("Starting simple producer ...")
MainTry ==
    /\ Running /\ pc = "main_try"
    /\ in_try' = TRUE
    /\ pc' = "loop_head"
    /\ UNCHANGED <<clock, rotVars, rotLocals, ipLocals, log, built, sink,
                   raised, interrupted_at, outcome, setVars, callVars>>

\* while True: producer.add_log_to_stream() begins _generate_log; the first
\* value of the dict is random.choice([...methods...]).
LogMethod ==
    /\ Running /\ pc = "loop_head"
    /\ built < MaxEvents
    /\ \E m \in MethodDraws : log' = ("method" :> m)
    /\ calls' = Called(NoCalls, {"method"})
    /\ pc' = "ip_call"
    /\ UNCHANGED <<clock, rotVars, rotLocals, ipLocals, built, sink, excVars,
                   setVars, tsLocals>>

(***************************************************************************)
(* SimpleProducer._generate_ip                                              *)
(***************************************************************************)
\* A _generate_ip that goes to its loop without the rotation check.
IpCall_NoCheck ==
    /\ Running /\ pc = "ip_call"
    /\ caller' = "gen_ip"
    /\ calls' = Called(calls, {"select_ip"})
    /\ idx' = 1
    /\ failed' = 0
    /\ all_zero' = TRUE
    /\ ret' = NoRet
    /\ pc' = "ip_loop"
    /\ UNCHANGED <<clock, rotVars, current_time, num_hot_ips, rotated, prev,
                   log, built, sink, excVars, setVars, tsLocals>>

\* self._rotate_hot_ips()  # Check if we need to rotate
IpCall ==
    /\ Running /\ pc = "ip_call"
    /\ caller' = "gen_ip"
    /\ calls' = Called(calls, {"select_ip"})
    /\ pc' = "rot_read"
    /\ UNCHANGED <<clock, rotVars, current_time, num_hot_ips, rotated, prev,
                   ipLocals, log, built, sink, excVars, setVars, tsLocals>>

\* zip(self.current_hot_ips, self.hot_ip_probabilities)
Pairs == Min(Len(current_hot_ips), Len(hot_ip_probabilities))

\* A pairing that takes the address from the pool instead of the hot set.
Pair_FromPool(j) == <<hot_ip_pool[j], hot_ip_probabilities[j]>>

\* The j-th (hot_ip, probability) of the zip.
Pair(j) == <<current_hot_ips[j], hot_ip_probabilities[j]>>

\* A hit test that also lets a draw equal to the probability through.
Hit_Inclusive(draw, probability) == draw <= probability

\* if random.random() < probability
Hit(draw, probability) == draw < probability

\* One pass of the for loop: one draw for the pair at idx; return hot_ip on a
\* hit, otherwise go on to the next pair.
IpDraw ==
    /\ Running /\ pc = "ip_loop"
    /\ idx <= Pairs
    /\ \E d \in RandomDraws :
        /\ all_zero' = (all_zero /\ d = 0)
        /\ failed' = failed + (IF d < hot_ip_probabilities[idx] THEN 0 ELSE 1)
        /\ IF Hit(d, Pair(idx)[2])
           THEN /\ ret' = [ip |-> Pair(idx)[1], source |-> "hot"]
                /\ idx' = idx
                /\ pc' = "ip_return"
           ELSE /\ ret' = ret
                /\ idx' = idx + 1
                /\ pc' = "ip_loop"
    /\ UNCHANGED <<clock, rotVars, rotLocals, log, built, sink, excVars,
                   setVars, callVars>>

\* The loop ran out of pairs: return self.fake.ipv4()
IpFallback ==
    /\ Running /\ pc = "ip_loop"
    /\ idx > Pairs
    /\ \E a \in FallbackDraws : ret' = [ip |-> a, source |-> "fallback"]
    /\ pc' = "ip_return"
    /\ UNCHANGED <<clock, rotVars, rotLocals, idx, failed, all_zero, log,
                   built, sink, excVars, setVars, callVars>>

\* A dict builder that asks _generate_ip again when it got a fallback address.
IpReturn_Retry ==
    /\ Running /\ pc = "ip_return"
    /\ IF ret.source = "fallback" /\ calls["select_ip"] < 2
       THEN /\ log' = log
            /\ pc' = "ip_call"
       ELSE /\ log' = log @@ ("ip" :> ret.ip)
            /\ pc' = "log_rest"
    /\ idx' = 0
    /\ failed' = 0
    /\ all_zero' = TRUE
    /\ ret' = NoRet
    /\ prev' = NoPrev
    /\ UNCHANGED <<clock, rotVars, current_time, num_hot_ips, caller, rotated,
                   built, sink, excVars, setVars, callVars>>

\* _generate_ip returns; its value becomes the 'ip' of the dict.
IpReturn ==
    /\ Running /\ pc = "ip_return"
    /\ log' = log @@ ("ip" :> ret.ip)
    /\ idx' = 0
    /\ failed' = 0
    /\ all_zero' = TRUE
    /\ ret' = NoRet
    /\ prev' = NoPrev
    /\ pc' = "log_rest"
    /\ UNCHANGED <<clock, rotVars, current_time, num_hot_ips, caller, rotated,
                   built, sink, excVars, setVars, callVars>>

(***************************************************************************)
(* SimpleProducer._generate_log, the remaining values of the dict           *)
(***************************************************************************)
\* base_time + timedelta(minutes=variation_minutes, seconds=variation_seconds):
\* a whole number of seconds is added, the microseconds stay.
VariedTime(base, variation_minutes, variation_seconds) ==
    [sec |-> base.sec + 60 * variation_minutes + variation_seconds,
     usec |-> base.usec]

\* A format that rounds to the nearest second.
Strftime_Rounded(t) ==
    LET r == t.sec + (IF t.usec >= 500000 THEN 1 ELSE 0)
    IN  [date |-> r \div 86400,
         hour |-> (r % 86400) \div 3600,
         minute |-> (r % 3600) \div 60,
         second |-> r % 60]

\* varied_time.strftime('%Y-%m-%d %H:%M:%S'): the date (as a number of days),
\* the hour, the minute and the second; the microseconds are not printed.
Strftime(t) ==
    [date |-> t.sec \div 86400,
     hour |-> (t.sec % 86400) \div 3600,
     minute |-> (t.sec % 3600) \div 60,
     second |-> t.sec % 60]

\* The value _generate_timestamp returns for a reading and two draws.
Formatted(base, variation_minutes, variation_seconds) ==
    Strftime(VariedTime(base, variation_minutes, variation_seconds))

\* The values after 'ip': 'path' from fake.uri_path(), 'timestamp' from
\* _generate_timestamp(), 'user_agent' from fake.user_agent(), 'status_code'
\* from str(random.choices(...)[0]); the dict is complete and is returned.
\* The locals of _generate_timestamp are gone when it has returned.
LogRest ==
    /\ Running /\ pc = "log_rest"
    /\ \E j \in JitterDraws, c \in StatusDraws, u \in UsecDraws :
        log' = log @@ ("path" :> "/uri/path")
                   @@ ("timestamp" :>
                          Formatted([sec |-> clock, usec |-> u], j[1], j[2]))
                   @@ ("user_agent" :> "Mozilla/5.0")
                   @@ ("status_code" :> c)
    /\ calls' = Called(calls, {"path", "timestamp", "user_agent", "status_code"})
    /\ built' = built + 1
    /\ pc' = "log_print"
    /\ UNCHANGED <<clock, rotVars, rotLocals, ipLocals, sink, excVars,
                   setVars, tsLocals>>

(***************************************************************************)
(* SimpleProducer.add_log_to_stream and the rest of the loop body           *)
(***************************************************************************)
\* print(f"... {log['ip']} {log['method']} {log['path']} - {log['status_code']}")
LogPrint ==
    /\ Running /\ pc = "log_print"
    /\ pc' = "xadd"
    /\ UNCHANGED <<clock, rotVars, rotLocals, ipLocals, log, built, sink, excVars,
                   setVars, callVars>>

\* An append that reports success and stores nothing.
XaddOk_Drop ==
    /\ Running /\ pc = "xadd"
    /\ log' = NoLog
    /\ pc' = "sleep"
    /\ UNCHANGED <<clock, rotVars, rotLocals, ipLocals, built, sink, excVars,
                   setVars, callVars>>

\* What XADD stores of a record, as far as this model follows it: its fields.
Stored(record) == DOMAIN record

\* self.r.xadd(STREAM_NAME, log) succeeds.
XaddOk ==
    /\ Running /\ pc = "xadd"
    /\ sink' = Append(sink, Stored(log))
    /\ log' = NoLog
    /\ pc' = "sleep"
    /\ UNCHANGED <<clock, rotVars, rotLocals, ipLocals, built, excVars,
                   setVars, callVars>>

\* self.r.xadd(STREAM_NAME, log) raises redis.ConnectionError.
XaddFail ==
    /\ Running /\ pc = "xadd"
    /\ raised' = "ConnectionError"
    /\ pc' = "unwind"
    /\ FramesGone
    /\ UNCHANGED <<clock, rotVars, caller, built, sink, in_try,
                   interrupted_at, outcome, setVars>>

\* The wall clock moves on, or stays, while the program sleeps.
Later(t) == {u \in ClockReadings : u >= t}

\* time.sleep(0.01)
Sleep ==
    /\ Running /\ pc = "sleep"
    /\ clock' \in Later(clock)
    /\ pc' = "loop_head"
    /\ UNCHANGED <<rotVars, rotLocals, ipLocals, log, built, sink, excVars,
                   setVars, callVars>>

(***************************************************************************)
(* Exceptions                                                               *)
(***************************************************************************)
ProgramPoints ==
    {"ping", "init_fields", "rot_read", "rot_check", "rot_num", "rot_sample",
     "rot_probs", "rot_last", "rot_print", "rot_return", "main_try",
     "loop_head", "ip_call", "ip_loop", "ip_return", "log_rest",
     "log_print", "xadd", "sleep"}

\* A KeyboardInterrupt is raised in the main thread before the statement at pc.
Interrupt ==
    /\ Running /\ pc \in ProgramPoints
    /\ raised' = "KeyboardInterrupt"
    /\ interrupted_at' = pc
    /\ pc' = "unwind"
    /\ FramesGone
    /\ UNCHANGED <<clock, rotVars, caller, built, sink, in_try, outcome,
                   setVars>>

\* A KeyboardInterrupt is raised inside xadd after the command has reached the
\* server and before the reply is read: the record is in the stream.
InterruptInXadd ==
    /\ Running /\ pc = "xadd"
    /\ sink' = Append(sink, Stored(log))
    /\ raised' = "KeyboardInterrupt"
    /\ interrupted_at' = "xadd_sent"
    /\ pc' = "unwind"
    /\ FramesGone
    /\ UNCHANGED <<clock, rotVars, caller, built, in_try, outcome,
                   setVars>>

\* A handler that also takes what is raised before the try block is entered.
Catches_Anywhere(inside_try, exception) == TRUE

\* A handler that takes every exception raised inside the try block.
Catches_All(inside_try, exception) == inside_try

\* main's only handler: except KeyboardInterrupt, around the loop.
Catches(inside_try, exception) == inside_try /\ exception = "KeyboardInterrupt"

\* The exception reaches main: the except clause takes it, or it leaves main.
Unwind ==
    /\ pc = "unwind"
    /\ pc' = IF Catches(in_try, raised) THEN "handler" ELSE "exit"
    /\ outcome' = IF Catches(in_try, raised) THEN outcome ELSE "uncaught"
    /\ UNCHANGED <<clock, rotVars, rotLocals, ipLocals, log, built, sink,
                   in_try, raised, interrupted_at, setVars, callVars>>

\* print("Shutting down gracefully..."); print("Producer stopped."); main returns.
Handler ==
    /\ pc = "handler"
    /\ outcome' = "graceful"
    /\ pc' = "exit"
    /\ UNCHANGED <<clock, rotVars, rotLocals, ipLocals, log, built, sink,
                   in_try, raised, interrupted_at, setVars, callVars>>

Next ==
    \/ PingOk \/ PingFail \/ InitFields
    \/ RotRead \/ RotCheck \/ RotNum \/ RotSample \/ RotProbs \/ RotLast
    \/ RotPrint \/ RotReturn
    \/ MainTry \/ LogMethod \/ IpCall \/ IpDraw \/ IpFallback \/ IpReturn
    \/ LogRest \/ LogPrint \/ XaddOk \/ XaddFail \/ Sleep
    \/ Interrupt \/ InterruptInXadd \/ Unwind \/ Handler

Spec == Init /\ [][Next]_vars

(***************************************************************************)
(* The program as the interpreter runs it: the single thread goes on to its *)
(* next statement, a blocking call (ping, xadd, sleep) returns or raises.   *)
(* Nothing is assumed of the environment: an interrupt or a connection      *)
(* error may come or not.                                                   *)
(***************************************************************************)
\* The steps the program takes by itself.
Step ==
    \/ PingOk \/ InitFields
    \/ RotRead \/ RotCheck \/ RotNum \/ RotSample \/ RotProbs \/ RotLast
    \/ RotPrint \/ RotReturn
    \/ MainTry \/ LogMethod \/ IpCall \/ IpDraw \/ IpFallback \/ IpReturn
    \/ LogRest \/ LogPrint \/ XaddOk \/ Sleep
    \/ Unwind \/ Handler

SpecLive == Init /\ [][Next]_vars /\ WF_vars(Step)

(***************************************************************************)
(* The program under a wall clock that can be stepped: time.time() follows  *)
(* the system clock, which can be set back while the program sleeps.        *)
(***************************************************************************)
\* time.sleep(0.01), with the system clock set to any reading meanwhile.
SleepStepped ==
    /\ Running /\ pc = "sleep"
    /\ clock' \in ClockReadings
    /\ pc' = "loop_head"
    /\ UNCHANGED <<rotVars, rotLocals, ipLocals, log, built, sink, excVars,
                   setVars, callVars>>

NextStepped == Next \/ SleepStepped

SpecStepped == Init /\ [][NextStepped]_vars

(***************************************************************************)
(* _generate_timestamp on its own: every reading below, every offset the    *)
(* two randint calls can draw.                                              *)
(***************************************************************************)
\* Seconds of datetime.now(): inside a day, the last second of a day, the
\* first second of the next day, and five minutes into it.
TimestampReadings == {100, 86399, 86400, 86700}

\* random.randint(-5, 5) and random.randint(0, 59), in full.
MinuteDraws == (0 - 5)..5
SecondDraws == 0..59

InitTs ==
    /\ pc = "ts_call"
    /\ clock \in TimestampReadings
    /\ current_hot_ips = <<>>
    /\ hot_ip_probabilities = <<>>
    /\ last_rotation_time = 0
    /\ current_time = 0
    /\ num_hot_ips = 0
    /\ caller = "init"
    /\ rotated = FALSE
    /\ prev = NoPrev
    /\ idx = 0
    /\ failed = 0
    /\ all_zero = TRUE
    /\ ret = NoRet
    /\ log = NoLog
    /\ built = 0
    /\ sink = <<>>
    /\ in_try = FALSE
    /\ raised = "none"
    /\ interrupted_at = "none"
    /\ outcome = "running"
    /\ pool = hot_ip_pool
    /\ hot_at = 0
    /\ probs_at = 0
    /\ calls = NoCalls
    /\ base_time = NoTime
    /\ variation = NoVariation

\* One call of _generate_timestamp; its locals and its return value (held in
\* log under 'timestamp') stay to be looked at.
GenerateTimestamp ==
    /\ pc = "ts_call"
    /\ \E u \in UsecDraws, m \in MinuteDraws, sd \in SecondDraws :
        /\ base_time' = [sec |-> clock, usec |-> u]
        /\ variation' = [minutes |-> m, seconds |-> sd]
        /\ log' = ("timestamp" :> Formatted([sec |-> clock, usec |-> u], m, sd))
    /\ pc' = "ts_return"
    /\ UNCHANGED <<clock, rotVars, rotLocals, ipLocals, built, sink, excVars,
                   setVars, calls>>

NextTs == GenerateTimestamp

SpecTs == InitTs /\ [][NextTs]_vars

(***************************************************************************)
(* Properties                                                               *)
(*                                                                          *)
(* At pc = "rot_return" a call of _rotate_hot_ips is about to return:       *)
(* current_time is its clock reading, prev is what the call before it had   *)
(* left (prev.now its reading, prev.last the reading of the latest          *)
(* rotation before the running call, 0 when there was none).                *)
(***************************************************************************)
Abs(n) == IF n < 0 THEN 0 - n ELSE n

\* C1: a rotation check made at clock reading current_time rotates exactly
\* when current_time - last_rotation_time >= 240 (a gap of exactly 240
\* rotates): it then installs a Hot Set and Hot Probabilities of the drawn
\* size and sets last_rotation_time to the reading; when the gap is below
\* 240 it leaves all three fields as they were.
C1_RotationGate ==
    pc = "rot_return" =>
        IF current_time - prev.last >= 240
        THEN /\ rotated
             /\ current_time = clock
             /\ last_rotation_time = current_time
             /\ Len(current_hot_ips) = num_hot_ips
             /\ Len(hot_ip_probabilities) = num_hot_ips
        ELSE /\ ~rotated
             /\ current_hot_ips = prev.hot
             /\ hot_ip_probabilities = prev.probs
             /\ last_rotation_time = prev.last

\* A check exactly 240 after an earlier rotation has rotated.
C1_Witness ==
    /\ pc = "rot_return"
    /\ rotated
    /\ prev.last > 0
    /\ current_time - prev.last = 240

\* C2 as stated, for an engine that has rotated before: two calls of the
\* rotation check whose readings are less than 240 apart leave the same Hot
\* Set and Hot Probabilities.
C2_CallsWithinInterval ==
    (/\ pc = "rot_return"
     /\ prev.valid
     /\ prev.last > 0
     /\ Abs(current_time - prev.now) < 240)
        => /\ current_hot_ips = prev.hot
           /\ hot_ip_probabilities = prev.probs

\* C2 as amended: a call whose reading is less than 240 after the reading of
\* an earlier call that rotated leaves the Hot Set and Hot Probabilities that
\* the earlier call installed.  (When the running call begins, the fields are
\* what the latest rotating call left, and prev.last is its reading.)
C2_WithinIntervalOfRotation ==
    (/\ pc = "rot_return"
     /\ prev.valid
     /\ prev.last > 0
     /\ current_time - prev.last < 240)
        => /\ current_hot_ips = prev.hot
           /\ hot_ip_probabilities = prev.probs

\* A call 239 after a rotation, with a call in between, has changed nothing.
C2_Witness ==
    /\ pc = "rot_return"
    /\ prev.valid
    /\ prev.last > 0
    /\ ~prev.rotated
    /\ current_time - prev.last = 239
    /\ Len(current_hot_ips) > 0

\* C3: the first select_ip after construction, at any clock reading, goes
\* through a Hot Set that has been rotated at least once and is non-empty.
C3_FirstSelectOnRotatedSet ==
    (pc = "ip_loop" /\ built = 0) =>
        /\ Len(current_hot_ips) > 0
        /\ last_rotation_time > 0

\* A rotation has assigned the Hot Set and not yet the Hot Probabilities, or
\* was cut short there by an interrupt.
MidRotation == pc = "rot_probs" \/ interrupted_at = "rot_probs"

\* C4: once a rotation has completed, and no later rotation is part-way,
\* the Hot Set and the Hot Probabilities have the same length, between 4 and
\* 6, and every probability lies in [0.03, 0.12].
C4_ShapeAfterRotation ==
    (last_rotation_time > 0 /\ ~MidRotation) =>
        /\ Len(current_hot_ips) = Len(hot_ip_probabilities)
        /\ Len(current_hot_ips) >= 4
        /\ Len(current_hot_ips) <= 6
        /\ \A j \in 1..Len(hot_ip_probabilities) :
            hot_ip_probabilities[j] >= 30 /\ hot_ip_probabilities[j] <= 120

\* A select_ip that did not rotate runs on six hot addresses whose
\* probabilities reach both ends of the range.
C4_Witness ==
    /\ pc = "ip_loop"
    /\ ~rotated
    /\ last_rotation_time > 0
    /\ Len(current_hot_ips) = 6
    /\ hot_ip_probabilities[1] = 30
    /\ hot_ip_probabilities[6] = 120

\* C5: select_ip goes through the pairs in the order drawn, one draw per
\* pair, and returns the hot address of the first pair whose draw is below
\* its probability, all draws before it having failed; it returns a fallback
\* address exactly when the draw of every pair has failed; and when all draws
\* are 0.0 it returns the first address of the Hot Set.
C5_FirstHitWins ==
    pc = "ip_return" =>
        /\ ret.source \in {"hot", "fallback"}
        /\ ret.source = "hot" =>
            /\ idx \in 1..Pairs
            /\ ret.ip = current_hot_ips[idx]
            /\ failed = idx - 1
        /\ ret.source = "fallback" <=> failed = Pairs
        /\ (all_zero /\ Pairs > 0) => ret.ip = current_hot_ips[1]

\* A hot address other than the first is returned after the draws before it
\* failed.
C5_Witness ==
    /\ pc = "ip_return"
    /\ ret.source = "hot"
    /\ idx = 3
    /\ failed = 2

\* C6 as stated: the address select_ip returns is in the Hot Set in force
\* after the call's rotation check or comes from the fallback generator, and
\* it is never an address of the replaced Hot Set that is not in the current
\* one.
C6_NeverReplacedAddress ==
    pc = "ip_return" =>
        /\ ret.source = "hot" => ret.ip \in Range(current_hot_ips)
        /\ ret.source # "hot" => ret.source = "fallback"
        /\ ~(ret.ip \in Range(prev.hot) \ Range(current_hot_ips))

\* C6 as amended: the address select_ip returns is in the Hot Set in force
\* after the call's rotation check, or it comes from the fallback generator
\* in that call; only an address returned as hot is never an address that
\* the replaced Hot Set had and the current one has not.
C6_HotOrFallback ==
    pc = "ip_return" =>
        /\ ret.source = "hot" =>
            /\ ret.ip \in Range(current_hot_ips)
            /\ ~(ret.ip \in Range(prev.hot) \ Range(current_hot_ips))
        /\ ret.source # "hot" =>
            /\ ret.source = "fallback"
            /\ failed = Pairs

\* A call that replaced an earlier Hot Set returns a hot address.
C6_Witness ==
    /\ pc = "ip_return"
    /\ ret.source = "hot"
    /\ rotated
    /\ prev.last > 0
    /\ Range(prev.hot) # Range(current_hot_ips)

\* C7: a rotation check made at the same clock reading as the check before
\* it changes nothing.
C7_SameReadingNoOp ==
    (pc = "rot_return" /\ prev.valid /\ current_time = prev.now) =>
        /\ ~rotated
        /\ current_hot_ips = prev.hot
        /\ hot_ip_probabilities = prev.probs
        /\ last_rotation_time = prev.last

\* The check before rotated, and the check at the same reading did not.
C7_Witness ==
    /\ pc = "rot_return"
    /\ prev.valid
    /\ prev.rotated
    /\ current_time = prev.now
    /\ ~rotated

\* Control has left the emission loop for good.
Left == pc \in {"unwind", "handler", "exit"}

\* C8 as stated: an interrupt delivered at any point of main ends in the
\* graceful shutdown, and every record in the sink has all six fields.
C8_InterruptAlwaysGraceful ==
    /\ (raised = "KeyboardInterrupt" /\ pc = "exit") => outcome = "graceful"
    /\ \A j \in 1..Len(sink) : sink[j] = Fields

\* C9 as stated: the graceful shutdown is reached only from an interrupt
\* observed between two iterations, and by then every event that was built
\* has been appended.
C9_CancelOnlyBetweenIterations ==
    outcome = "graceful" =>
        /\ interrupted_at \in {"sleep", "loop_head"}
        /\ built = Len(sink)

\* C9 as amended: an interrupt is observed wherever it is delivered.  After
\* it control has left the loop, so nothing more is built or appended; every
\* event built has been appended, except the one event whose build and append
\* the interrupt fell between.
C9_AtMostOneEventDropped ==
    raised = "KeyboardInterrupt" =>
        /\ Left
        /\ built - Len(sink) \in {0, 1}
        /\ built = Len(sink) + 1 <=> interrupted_at \in {"log_print", "xadd"}

\* The graceful shutdown was reached with one built event not appended.
C9_Witness ==
    /\ outcome = "graceful"
    /\ interrupted_at = "log_print"
    /\ Len(sink) = 1
    /\ built = 2

\* C10: a ConnectionError raised by the append inside the loop is not taken
\* by main's handler and ends the process with the error outcome, never the
\* graceful one; the event of the failed append stays unappended and nothing
\* is built or appended after it.
C10_AppendErrorPropagates ==
    (raised = "ConnectionError" /\ in_try) =>
        /\ pc \in {"unwind", "exit"}
        /\ outcome # "graceful"
        /\ pc = "exit" => outcome = "uncaught"
        /\ interrupted_at = "none"
        /\ built = Len(sink) + 1

\* The second append failed and the process has ended with the error.
C10_Witness ==
    /\ raised = "ConnectionError"
    /\ in_try
    /\ pc = "exit"
    /\ outcome = "uncaught"
    /\ Len(sink) = 1

\* C11: when the handshake with the sink fails, the ConnectionError leaves
\* the constructor and main (no handler takes it) and the process ends with
\* the error outcome, never the graceful one; no rotation has been performed,
\* the try block with the emission loop is never entered, and no event is
\* built or appended.
C11_HandshakeFailureAborts ==
    (raised = "ConnectionError" /\ ~in_try) =>
        /\ pc \in {"unwind", "exit"}
        /\ outcome # "graceful"
        /\ pc = "exit" => outcome = "uncaught"
        /\ interrupted_at = "none"
        /\ current_hot_ips = <<>>
        /\ hot_ip_probabilities = <<>>
        /\ last_rotation_time = 0
        /\ built = 0
        /\ sink = <<>>

\* The handshake failed and the process has ended with the error.
C11_Witness ==
    /\ raised = "ConnectionError"
    /\ ~in_try
    /\ pc = "exit"
    /\ outcome = "uncaught"
    /\ built = 0

\* C12: the dict that _generate_log returns has exactly the six fields
\* method, ip, path, timestamp, user_agent and status_code, each populated;
\* building it has called each generator exactly once, _generate_ip among
\* them, and so has made exactly one rotation check and at most one rotation.
C12_SixFieldsOneCallEach ==
    pc = "log_print" =>
        /\ DOMAIN log = Fields
        /\ \A f \in Fields \ {"timestamp"} : log[f] # ""
        /\ log["timestamp"].hour \in 0..23
        /\ log["timestamp"].minute \in 0..59
        /\ log["timestamp"].second \in 0..59
        /\ \A g \in {"method", "select_ip", "path", "timestamp", "user_agent",
                     "status_code"} : calls[g] = 1
        /\ calls["rotation_check"] = 1
        /\ calls["rotation"] <= 1
        /\ calls["rotation"] = 1 <=> rotated

\* The second dict has been built, its one rotation check rotated, and its
\* address came from the fallback generator.
C12_Witness ==
    /\ pc = "log_print"
    /\ built = 2
    /\ calls["rotation"] = 1
    /\ log["ip"] = "8.8.8.8"

\* Reading a formatted timestamp back: the second it names.
Strptime(text) ==
    86400 * text.date + 3600 * text.hour + 60 * text.minute + text.second

\* Instants as [sec, usec]: an instant moved by k seconds, and the order.
Shift(t, k) == [sec |-> t.sec + k, usec |-> t.usec]
AtMost(a, b) == a.sec < b.sec \/ (a.sec = b.sec /\ a.usec <= b.usec)
Returned == [sec |-> Strptime(log["timestamp"]), usec |-> 0]

\* C13 as stated: the timestamp _generate_timestamp returns is its reading
\* of the clock plus a whole number of seconds in [-300, +359], and lies
\* within [now - 5min, now + 5min + 59s].
C13_NowPlusWholeSeconds ==
    pc = "ts_return" =>
        /\ \E k \in (0 - 300)..359 : Returned = Shift(base_time, k)
        /\ AtMost(Shift(base_time, 0 - 300), Returned)
        /\ AtMost(Returned, Shift(base_time, 359))

\* C13 as amended: the timestamp is the reading cut to its whole second,
\* plus 60 times the minutes drawn plus the seconds drawn, a whole number of
\* seconds in [-300, +359]; it is later than now - 5min - 1s and not later
\* than now + 5min + 59s, and its hour, minute and second are well formed.
C13_WholeSecondPlusOffset ==
    pc = "ts_return" =>
        /\ Returned.sec =
              base_time.sec + 60 * variation.minutes + variation.seconds
        /\ Returned.sec - base_time.sec \in (0 - 300)..359
        /\ ~AtMost(Returned, Shift(base_time, 0 - 301))
        /\ AtMost(Returned, Shift(base_time, 359))
        /\ log["timestamp"].hour \in 0..23
        /\ log["timestamp"].minute \in 0..59
        /\ log["timestamp"].second \in 0..59

\* Half a second past midnight with the earliest offset: the timestamp is
\* 23:55:00 of the day before.
C13_Witness ==
    /\ pc = "ts_return"
    /\ base_time = [sec |-> 86400, usec |-> 500000]
    /\ variation = [minutes |-> 0 - 5, seconds |-> 0]
    /\ log["timestamp"] = [date |-> 0, hour |-> 23, minute |-> 55, second |-> 0]

\* C14: in every state the addresses of the Hot Set are pairwise distinct
\* and all belong to the pool of 16 addresses; the pool, once the constructor
\* has assigned it, is those 16 addresses in every state, whatever
\* construction, the rotation check, _generate_ip and _generate_log do.
C14_DistinctFromFixedPool ==
    /\ \A i, j \in 1..Len(current_hot_ips) :
          i # j => current_hot_ips[i] # current_hot_ips[j]
    /\ Range(current_hot_ips) \subseteq Range(hot_ip_pool)
    /\ Cardinality(Range(hot_ip_pool)) = 16
    /\ pool \in {<<>>, hot_ip_pool}
    /\ (pc \in ProgramPoints \ {"ping", "init_fields"}) => pool = hot_ip_pool
    /\ current_hot_ips # <<>> => pool = hot_ip_pool

\* A second rotation has installed six addresses, and three events have
\* been built since construction.
C14_Witness ==
    /\ pc = "sleep"
    /\ built = 3
    /\ Len(current_hot_ips) = 6
    /\ last_rotation_time = 480
    /\ pool = hot_ip_pool

\* C15 as stated: in every state, the states inside a rotation and the
\* state in which an interrupt or an error has stopped the program included,
\* the Hot Set and the Hot Probabilities have the same length and were
\* assigned by the same rotation.
C15_AtomicInEveryState ==
    /\ Len(current_hot_ips) = Len(hot_ip_probabilities)
    /\ hot_at = probs_at

\* C15 as amended: the two lists are assigned one after the other.  In every
\* state but the one between the two assignments, and the state an interrupt
\* delivered there leaves, they have the same length and were assigned by
\* the same rotation; in particular so they are whenever _generate_ip pairs
\* them and whenever an error stops the program.  Between the two
\* assignments the new Hot Set stands with the probabilities of the rotation
\* before.
C15_PairedOutsideTheGap ==
    /\ ~MidRotation =>
          /\ Len(current_hot_ips) = Len(hot_ip_probabilities)
          /\ hot_at = probs_at
    /\ pc = "rot_probs" =>
          /\ hot_at = current_time
          /\ probs_at = prev.last
          /\ hot_ip_probabilities = prev.probs
    /\ pc = "ip_loop" => hot_at = last_rotation_time
    /\ raised = "ConnectionError" => hot_at = probs_at

\* A second rotation has replaced both lists by lists of another length.
C15_Witness ==
    /\ pc = "rot_last"
    /\ prev.last > 0
    /\ Len(prev.hot) # Len(current_hot_ips)
    /\ Len(current_hot_ips) = Len(hot_ip_probabilities)
    /\ hot_at = current_time
    /\ probs_at = current_time

\* C18: whenever _generate_ip returns a hot address, the call has read the
\* clock, the reading is the current one, and the Hot Set the address was
\* taken from was installed by a rotation less than 240 before that reading.
C18_HotSetNeverStale ==
    (pc = "ip_return" /\ ret.source = "hot") =>
        /\ current_time = clock
        /\ last_rotation_time > 0
        /\ hot_at = last_rotation_time
        /\ clock - last_rotation_time < 240
        /\ ret.ip \in Range(current_hot_ips)

\* A hot address is returned 239 after the rotation that installed it.
C18_Witness ==
    /\ pc = "ip_return"
    /\ ret.source = "hot"
    /\ ~rotated
    /\ clock - last_rotation_time = 239

\* C17: last_rotation_time never decreases, and when it changes it grows by
\* at least 240, so any two successive rotations have readings at least 240
\* apart; a rotation check whose reading is earlier than last_rotation_time
\* does not rotate.  This holds when the clock can be set back.
C17_RotationTimeMonotone ==
    [][/\ \/ last_rotation_time' = last_rotation_time
          \/ last_rotation_time' - last_rotation_time >= 240
       /\ (pc = "rot_check" /\ current_time < last_rotation_time) =>
              /\ pc' \in {"rot_return", "unwind"}
              /\ UNCHANGED rotVars]_vars

\* A rotation check has read a clock that was set back to before the latest
\* rotation, and has not rotated.
C17_Witness ==
    /\ pc = "rot_return"
    /\ caller = "gen_ip"
    /\ current_time < last_rotation_time
    /\ ~rotated
    /\ last_rotation_time = prev.last
    /\ current_hot_ips = prev.hot

\* The loop is about to build another event and the clock reads at least
\* 240 more than at the latest rotation.
RotationDue ==
    /\ Running
    /\ pc = "loop_head"
    /\ built < MaxEvents
    /\ clock - last_rotation_time >= 240

\* C16: whenever the loop goes on at a clock reading at least 240 after the
\* latest rotation, a rotation at that reading follows, unless an interrupt
\* or an error stops the loop first.  The clock moves only while the program
\* sleeps, so the rotation is made by the first _generate_ip call that reads
\* the clock at least 240 after the latest rotation; and it is made by
\* nothing else: last_rotation_time changes only in the rotation check,
\* never while the program sleeps.
C16_RotatesAgainWhenDue ==
    /\ RotationDue ~> (last_rotation_time = clock \/ raised # "none")
    /\ [][last_rotation_time' # last_rotation_time => pc = "rot_last"]_vars

\* A _generate_ip call 340 after a rotation has rotated; the call before it,
\* 100 after that rotation, had not.
C16_Witness ==
    /\ pc = "rot_return"
    /\ caller = "gen_ip"
    /\ rotated
    /\ prev.last > 0
    /\ ~prev.rotated
    /\ prev.now - prev.last = 100
    /\ current_time - prev.last = 340

====
